---- MODULE Spec2Model ----
(***************************************************************************)
(* State-machine model of the ESP32 parking-bay controller                 *)
(* (parkingtestlatest.ino): setup(), reconnect(), loop(),                  *)
(* detectIRStatus(), displayLCD() and readDHT().                           *)
(*                                                                         *)
(* Temperatures and humidities are held in tenths (24.9 is 249), which is  *)
(* the resolution of the sensor; NaN is the failed read.                   *)
(***************************************************************************)
EXTENDS Integers, Sequences, FiniteSets, TLC

VARIABLES
  pc,             \* position of the single thread of control
  ret,            \* caller of reconnect(): "setup" or "loop"
  wifi,           \* WiFi.status() == WL_CONNECTED
  connected,      \* mqttClient.connected()
  attempts,       \* connect attempts of the running reconnect() (saturating)
  relay,          \* level of relayPin
  led,            \* levels of ledPins[0..2]
  lcd,            \* the four rows of the display
  sensorValue,    \* loop(): int sensorValue
  i,              \* loop(): loop index of the slot scan
  sensorStatus,   \* loop(): String sensorStatus[3]
  availableSlots, \* loop(): int availableSlots
  read1,          \* level seen by the first digitalRead of each slot
  read2,          \* level seen by the second digitalRead of each slot
  humidity,       \* readDHT(): float humidity
  temperature,    \* readDHT(): float temperature
  connAtPublish,  \* what mqttClient.connected() returned at line 188
  published,      \* publish calls of this tick, in order
  uploads,        \* links of the GET requests of this tick, in order
  httpCode,       \* readDHT(): int httpCode
  diag,           \* diagnostics readDHT() printed in this tick
  waits,          \* the delay() calls of this tick: the function and the duration
  snap            \* << >>, or <<the inputs and outputs of one remembered tick>>

vars == <<pc, ret, wifi, connected, attempts, relay, led, lcd, sensorValue, i,
          sensorStatus, availableSlots, read1, read2, humidity, temperature,
          connAtPublish, published, uploads, httpCode, diag, waits, snap>>

\* ------------------------------------------------------------------ bounds
MaxAttempts == 2      \* the attempt counter saturates here

\* ------------------------------------------------------- program constants
threshold == 1000             \* const int threshold
TempThreshold == 250          \* 25.0
HumThreshold == 600           \* 60.0
HTTP_CODE_OK == 200
NumSlots == 3
SettleDelay == 50              \* detectIRStatus(): delay(50)
LoopDelay == 1000              \* loop(): delay(1000)
DhtFailDelay == 2000           \* readDHT(): delay(2000)
ReconnectDelay == 5000         \* reconnect(): delay(5000)
WifiDelay == 1000              \* setup(): delay(1000)

host == "YOUR_SERVER_IP"
dht_topic == "DHT11_topic_manros"
dht_topic1 == "DHT11_topic1_manros"

\* ------------------------------------------------------------ input values
NaN == -1
GasSamples == {threshold, threshold + 1, 1200}
TempSamples == {NaN, TempThreshold - 1, TempThreshold}
HumSamples == {NaN, HumThreshold - 1, HumThreshold}
HttpCodes == {HTTP_CODE_OK, 404}
Levels == {"LOW", "HIGH"}
Slots == 1..NumSlots

isnan(v) == v = NaN

\* a delay(ms) call made by function f
Wait(f, ms) == [in |-> f, ms |-> ms]

\* --------------------------------------------------------- String(...)
Digits == <<"0", "1", "2", "3", "4", "5", "6", "7", "8", "9">>

RECURSIVE StringOfInt(_)
\* String(int): decimal digits, no padding
StringOfInt(n) ==
  IF n < 10 THEN Digits[n + 1]
  ELSE StringOfInt(n \div 10) \o Digits[(n % 10) + 1]

\* String(float): two decimal places; a NaN prints as "nan"
StringOfFloat(t) ==
  IF isnan(t) THEN "nan"
  ELSE StringOfInt(t \div 10) \o "." \o Digits[(t % 10) + 1] \o "0"

\* the slot states written in the display's reversed order
Link_SlotsReversed(t, h, g, st) ==
  "http://" \o host \o "/projectfinal/kirimdata.php?temp=" \o StringOfFloat(t)
    \o "&hum=" \o StringOfFloat(h) \o "&gas=" \o StringOfInt(g)
    \o "&ir1=" \o st[3] \o "&ir2=" \o st[2] \o "&ir3=" \o st[1]

\* readDHT(): the link of the GET request
Link(t, h, g, st) ==
  "http://" \o host \o "/projectfinal/kirimdata.php?temp=" \o StringOfFloat(t)
    \o "&hum=" \o StringOfFloat(h) \o "&gas=" \o StringOfInt(g)
    \o "&ir1=" \o st[1] \o "&ir2=" \o st[2] \o "&ir3=" \o st[3]

\* the comparison written with >=
RelayLevel_Inclusive(v) == IF v >= threshold THEN "HIGH" ELSE "LOW"

\* loop(): the relay level chosen for a gas sample
RelayLevel(v) == IF v > threshold THEN "HIGH" ELSE "LOW"

\* displayLCD(): rows 0..3 of the display
LcdRows(st, avail) ==
  << "Slot A6: " \o st[3], "Slot A5: " \o st[2], "Slot A4: " \o st[1],
     "Available: " \o StringOfInt(avail) >>

\* the locals of loop() and readDHT() and the per-tick records, before a tick
NoStatus == [s \in Slots |-> ""]
NoRead == [s \in Slots |-> "NONE"]

TickLocalsInit ==
  /\ sensorValue = 0
  /\ i = 0
  /\ sensorStatus = NoStatus
  /\ availableSlots = NumSlots
  /\ read1 = NoRead
  /\ read2 = NoRead
  /\ humidity = NaN
  /\ temperature = NaN
  /\ connAtPublish = "NONE"
  /\ published = << >>
  /\ uploads = << >>
  /\ httpCode = 0
  /\ diag = {}
  /\ waits = {}

Init ==
  /\ pc = "setup"
  /\ ret = "setup"
  /\ wifi = FALSE
  /\ connected = FALSE
  /\ attempts = 0
  /\ relay = "FLOAT"
  /\ led = [s \in Slots |-> "FLOAT"]
  /\ lcd = << "", "", "", "" >>
  /\ snap = << >>
  /\ TickLocalsInit

Hardware == <<relay, led, lcd>>
ScanLocals == <<i, sensorStatus, availableSlots, read1, read2>>
DhtLocals == <<humidity, temperature, connAtPublish, published, uploads,
               httpCode, diag>>
Net == <<wifi, connected, attempts, ret>>

\* ------------------------------------------------------------------ setup()
\* WiFi.begin(ssid, password)
setup_WifiBegin ==
  /\ pc = "setup"
  /\ pc' = "wifi_wait"
  /\ UNCHANGED <<Net, Hardware, sensorValue, ScanLocals, DhtLocals, waits, snap>>

\* while (WiFi.status() != WL_CONNECTED) delay(1000): the network joins or not
setup_WifiWait ==
  /\ pc = "wifi_wait"
  /\ \E joined \in BOOLEAN :
       /\ wifi' = joined
       /\ IF joined
            THEN pc' = "reconnect" /\ waits' = waits
            ELSE pc' = "wifi_wait" /\ waits' = waits \cup {Wait("setup", WifiDelay)}
  /\ ret' = "setup"
  /\ UNCHANGED <<connected, attempts, Hardware, sensorValue, ScanLocals,
                 DhtLocals, snap>>

\* pinMode of the sensor and led pins, lcd.init(), lcd.print(...), dht.begin()
setup_Pins ==
  /\ pc = "setup_pins"
  /\ led' = [s \in Slots |-> "LOW"]
  /\ lcd' = << "Wifi Connected...", "", "", "" >>
  /\ pc' = "setup_relay"
  /\ UNCHANGED <<Net, relay, sensorValue, ScanLocals, DhtLocals, waits, snap>>

\* setup() without the digitalWrite(relayPin, LOW)
setup_Relay_Unwritten ==
  /\ pc = "setup_relay"
  /\ relay' = relay
  /\ pc' = "loop"
  /\ waits' = {}
  /\ UNCHANGED <<Net, led, lcd, sensorValue, ScanLocals, DhtLocals, snap>>

\* pinMode(relayPin, OUTPUT); digitalWrite(relayPin, LOW); setup() returns
setup_Relay ==
  /\ pc = "setup_relay"
  /\ relay' = "LOW"
  /\ pc' = "loop"
  /\ waits' = {}
  /\ UNCHANGED <<Net, led, lcd, sensorValue, ScanLocals, DhtLocals, snap>>

\* -------------------------------------------------------------- reconnect()
Min(a, b) == IF a < b THEN a ELSE b

\* the loop gives up after the first failed attempt
reconnect_Test_GiveUp ==
  /\ pc = "reconnect"
  /\ IF connected \/ attempts >= 1
       THEN /\ pc' = IF ret = "setup" THEN "setup_pins" ELSE "mqtt_loop"
            /\ attempts' = 0
       ELSE /\ pc' = "connect"
            /\ attempts' = attempts
  /\ UNCHANGED <<ret, wifi, connected, Hardware, sensorValue, ScanLocals,
                 DhtLocals, waits, snap>>

\* while (!mqttClient.connected()): the test of the loop
reconnect_Test ==
  /\ pc = "reconnect"
  /\ IF connected
       THEN /\ pc' = IF ret = "setup" THEN "setup_pins" ELSE "mqtt_loop"
            /\ attempts' = 0
       ELSE /\ pc' = "connect"
            /\ attempts' = attempts
  /\ UNCHANGED <<ret, wifi, connected, Hardware, sensorValue, ScanLocals,
                 DhtLocals, waits, snap>>

\* a refused connect switches the fan off while reconnect() waits
reconnect_Connect_RelayOff ==
  /\ pc = "connect"
  /\ \E ok \in BOOLEAN :
       /\ connected' = ok
       /\ waits' = IF ok THEN waits ELSE waits \cup {Wait("reconnect", ReconnectDelay)}
       /\ relay' = IF ok THEN relay ELSE "LOW"
  /\ attempts' = Min(attempts + 1, MaxAttempts)
  /\ pc' = "reconnect"
  /\ UNCHANGED <<ret, wifi, led, lcd, sensorValue, ScanLocals, DhtLocals, snap>>

\* if (mqttClient.connect(mqtt_client_id)) ... else delay(5000)
reconnect_Connect ==
  /\ pc = "connect"
  /\ \E ok \in BOOLEAN :
       /\ connected' = ok
       /\ waits' = IF ok THEN waits ELSE waits \cup {Wait("reconnect", ReconnectDelay)}
  /\ attempts' = Min(attempts + 1, MaxAttempts)
  /\ pc' = "reconnect"
  /\ UNCHANGED <<ret, wifi, Hardware, sensorValue, ScanLocals, DhtLocals, snap>>

\* the broker or the network drops the session
LinkDrop ==
  /\ connected
  /\ pc \notin {"setup", "wifi_wait"}
  /\ connected' = FALSE
  /\ UNCHANGED <<pc, ret, wifi, attempts, Hardware, sensorValue, ScanLocals,
                 DhtLocals, waits, snap>>

\* ------------------------------------------------------------------- loop()
\* if (!mqttClient.connected()) reconnect();
loop_CheckMqtt ==
  /\ pc = "loop"
  /\ IF connected
       THEN pc' = "mqtt_loop" /\ ret' = ret
       ELSE pc' = "reconnect" /\ ret' = "loop"
  /\ UNCHANGED <<wifi, connected, attempts, Hardware, sensorValue, ScanLocals,
                 DhtLocals, waits, snap>>

\* mqttClient.loop(); int sensorValue = analogRead(mq2Pin);
loop_GasRead ==
  /\ pc = "mqtt_loop"
  /\ \E v \in GasSamples : sensorValue' = v
  /\ pc' = "relay_write"
  /\ UNCHANGED <<Net, Hardware, ScanLocals, DhtLocals, waits, snap>>

\* a relay that, once on, stays on down to the threshold itself
loop_RelayWrite_Hysteresis ==
  /\ pc = "relay_write"
  /\ relay' = IF relay = "HIGH" /\ sensorValue >= threshold
               THEN "HIGH" ELSE RelayLevel(sensorValue)
  /\ sensorStatus' = NoStatus
  /\ availableSlots' = NumSlots
  /\ i' = 0
  /\ pc' = "ir_read1"
  /\ UNCHANGED <<Net, led, lcd, sensorValue, read1, read2, DhtLocals, waits,
                 snap>>

\* if (sensorValue > threshold) digitalWrite(relayPin, HIGH) else ... LOW;
\* String sensorStatus[3]; int availableSlots = 3; i = 0
loop_RelayWrite ==
  /\ pc = "relay_write"
  /\ relay' = RelayLevel(sensorValue)
  /\ sensorStatus' = NoStatus
  /\ availableSlots' = NumSlots
  /\ i' = 0
  /\ pc' = "ir_read1"
  /\ UNCHANGED <<Net, led, lcd, sensorValue, read1, read2, DhtLocals, waits,
                 snap>>

\* --------------------------------------------------------- detectIRStatus()
\* if (digitalRead(sensorPin) == LOW) { delay(50); ... } return "Empty";
detectIRStatus_Read1 ==
  /\ pc = "ir_read1"
  /\ \E level \in Levels :
       /\ read1' = [read1 EXCEPT ![i + 1] = level]
       /\ IF level = "LOW"
            THEN /\ pc' = "ir_read2"
                 /\ waits' = waits \cup {Wait("detectIRStatus", SettleDelay)}
                 /\ sensorStatus' = sensorStatus
            ELSE /\ pc' = "slot_drive"
                 /\ waits' = waits
                 /\ sensorStatus' = [sensorStatus EXCEPT ![i + 1] = "Empty"]
  /\ UNCHANGED <<Net, Hardware, sensorValue, i, availableSlots, read2,
                 DhtLocals, snap>>

\* the second read taken but its level not tested
detectIRStatus_Read2_Untested ==
  /\ pc = "ir_read2"
  /\ \E level \in Levels :
       /\ read2' = [read2 EXCEPT ![i + 1] = level]
       /\ sensorStatus' = [sensorStatus EXCEPT ![i + 1] = "Occupied"]
  /\ pc' = "slot_drive"
  /\ UNCHANGED <<Net, Hardware, sensorValue, i, availableSlots, read1,
                 DhtLocals, waits, snap>>

\* if (digitalRead(sensorPin) == LOW) return "Occupied"; ... return "Empty";
detectIRStatus_Read2 ==
  /\ pc = "ir_read2"
  /\ \E level \in Levels :
       /\ read2' = [read2 EXCEPT ![i + 1] = level]
       /\ sensorStatus' = [sensorStatus EXCEPT ![i + 1] =
                             IF level = "LOW" THEN "Occupied" ELSE "Empty"]
  /\ pc' = "slot_drive"
  /\ UNCHANGED <<Net, Hardware, sensorValue, i, availableSlots, read1,
                 DhtLocals, waits, snap>>

\* availableSlots-- placed after the if, so that every slot is counted
loop_SlotDrive_CountAll ==
  /\ pc = "slot_drive"
  /\ led' = [led EXCEPT ![i + 1] =
               IF sensorStatus[i + 1] = "Occupied" THEN "LOW" ELSE "HIGH"]
  /\ availableSlots' = availableSlots - 1
  /\ i' = i + 1
  /\ pc' = IF i + 1 < NumSlots THEN "ir_read1" ELSE "display"
  /\ UNCHANGED <<Net, relay, lcd, sensorValue, sensorStatus, read1, read2,
                 DhtLocals, waits, snap>>

\* the indicator indexed in the display's reversed order, ledPins[2 - i]
loop_SlotDrive_Reversed ==
  /\ pc = "slot_drive"
  /\ IF sensorStatus[i + 1] = "Occupied"
       THEN /\ led' = [led EXCEPT ![NumSlots - i] = "LOW"]
            /\ availableSlots' = availableSlots - 1
       ELSE /\ led' = [led EXCEPT ![NumSlots - i] = "HIGH"]
            /\ availableSlots' = availableSlots
  /\ i' = i + 1
  /\ pc' = IF i + 1 < NumSlots THEN "ir_read1" ELSE "display"
  /\ UNCHANGED <<Net, relay, lcd, sensorValue, sensorStatus, read1, read2,
                 DhtLocals, waits, snap>>

\* if (sensorStatus[i] == "Occupied") { digitalWrite(ledPins[i], LOW);
\* availableSlots--; } else digitalWrite(ledPins[i], HIGH);  i++
loop_SlotDrive ==
  /\ pc = "slot_drive"
  /\ IF sensorStatus[i + 1] = "Occupied"
       THEN /\ led' = [led EXCEPT ![i + 1] = "LOW"]
            /\ availableSlots' = availableSlots - 1
       ELSE /\ led' = [led EXCEPT ![i + 1] = "HIGH"]
            /\ availableSlots' = availableSlots
  /\ i' = i + 1
  /\ pc' = IF i + 1 < NumSlots THEN "ir_read1" ELSE "display"
  /\ UNCHANGED <<Net, relay, lcd, sensorValue, sensorStatus, read1, read2,
                 DhtLocals, waits, snap>>

\* displayLCD(sensorStatus, availableSlots)
displayLCD ==
  /\ pc = "display"
  /\ lcd' = LcdRows(sensorStatus, availableSlots)
  /\ pc' = "dht_read"
  /\ UNCHANGED <<Net, relay, led, sensorValue, ScanLocals, DhtLocals, waits,
                 snap>>

\* ---------------------------------------------------------------- readDHT()
\* the validity test written with && instead of ||
readDHT_Sample_BothNaN ==
  /\ pc = "dht_read"
  /\ \E h \in HumSamples, t \in TempSamples :
       /\ humidity' = h
       /\ temperature' = t
       /\ IF isnan(h) /\ isnan(t)
            THEN /\ diag' = diag \cup {"Failed to read from DHT sensor"}
                 /\ waits' = waits \cup {Wait("readDHT", DhtFailDelay)}
                 /\ pc' = "tick_delay"
            ELSE /\ diag' = diag
                 /\ waits' = waits
                 /\ pc' = "publish_check"
  /\ UNCHANGED <<Net, Hardware, sensorValue, ScanLocals, connAtPublish,
                 published, uploads, httpCode, snap>>

\* an invalid sample returns at once, without the delay(2000)
readDHT_Sample_NoDelay ==
  /\ pc = "dht_read"
  /\ \E h \in HumSamples, t \in TempSamples :
       /\ humidity' = h
       /\ temperature' = t
       /\ waits' = waits
       /\ IF isnan(h) \/ isnan(t)
            THEN /\ diag' = diag \cup {"Failed to read from DHT sensor"}
                 /\ pc' = "tick_delay"
            ELSE /\ diag' = diag
                 /\ pc' = "publish_check"
  /\ UNCHANGED <<Net, Hardware, sensorValue, ScanLocals, connAtPublish,
                 published, uploads, httpCode, snap>>

\* an invalid sample is read again at once instead of on the next tick
readDHT_Sample_RetryNow ==
  /\ pc = "dht_read"
  /\ \E h \in HumSamples, t \in TempSamples :
       /\ humidity' = h
       /\ temperature' = t
       /\ IF isnan(h) \/ isnan(t)
            THEN /\ diag' = diag \cup {"Failed to read from DHT sensor"}
                 /\ waits' = waits \cup {Wait("readDHT", DhtFailDelay)}
                 /\ pc' = "dht_read"
            ELSE /\ diag' = diag
                 /\ waits' = waits
                 /\ pc' = "publish_check"
  /\ UNCHANGED <<Net, Hardware, sensorValue, ScanLocals, connAtPublish,
                 published, uploads, httpCode, snap>>

\* humidity = dht.readHumidity(); temperature = dht.readTemperature();
\* if (isnan(humidity) || isnan(temperature)) { ...; delay(2000); return; }
readDHT_Sample ==
  /\ pc = "dht_read"
  /\ \E h \in HumSamples, t \in TempSamples :
       /\ humidity' = h
       /\ temperature' = t
       /\ IF isnan(h) \/ isnan(t)
            THEN /\ diag' = diag \cup {"Failed to read from DHT sensor"}
                 /\ waits' = waits \cup {Wait("readDHT", DhtFailDelay)}
                 /\ pc' = "tick_delay"
            ELSE /\ diag' = diag
                 /\ waits' = waits
                 /\ pc' = "publish_check"
  /\ UNCHANGED <<Net, Hardware, sensorValue, ScanLocals, connAtPublish,
                 published, uploads, httpCode, snap>>

\* the two thresholds joined with || instead of &&
readDHT_PublishCheck_Either ==
  /\ pc = "publish_check"
  /\ IF temperature >= TempThreshold \/ humidity >= HumThreshold
       THEN /\ connAtPublish' = IF connected THEN "YES" ELSE "NO"
            /\ IF connected
                 THEN pc' = "publish_temp" /\ diag' = diag
                 ELSE pc' = "http_get" /\ diag' = diag \cup {"MQTT not connected"}
       ELSE /\ connAtPublish' = connAtPublish
            /\ pc' = "http_get"
            /\ diag' = diag
  /\ UNCHANGED <<Net, Hardware, sensorValue, ScanLocals, humidity, temperature,
                 published, uploads, httpCode, waits, snap>>

\* a disconnected publisher ends readDHT() with a return
readDHT_PublishCheck_Return ==
  /\ pc = "publish_check"
  /\ IF temperature >= TempThreshold /\ humidity >= HumThreshold
       THEN /\ connAtPublish' = IF connected THEN "YES" ELSE "NO"
            /\ IF connected
                 THEN pc' = "publish_temp" /\ diag' = diag
                 ELSE pc' = "tick_delay" /\ diag' = diag \cup {"MQTT not connected"}
       ELSE /\ connAtPublish' = connAtPublish
            /\ pc' = "http_get"
            /\ diag' = diag
  /\ UNCHANGED <<Net, Hardware, sensorValue, ScanLocals, humidity, temperature,
                 published, uploads, httpCode, waits, snap>>

\* if (temperature >= 25.0 && humidity >= 60.0) { if (mqttClient.connected())
\* ... else Serial.println("MQTT not connected"); }
readDHT_PublishCheck ==
  /\ pc = "publish_check"
  /\ IF temperature >= TempThreshold /\ humidity >= HumThreshold
       THEN /\ connAtPublish' = IF connected THEN "YES" ELSE "NO"
            /\ IF connected
                 THEN pc' = "publish_temp" /\ diag' = diag
                 ELSE pc' = "http_get" /\ diag' = diag \cup {"MQTT not connected"}
       ELSE /\ connAtPublish' = connAtPublish
            /\ pc' = "http_get"
            /\ diag' = diag
  /\ UNCHANGED <<Net, Hardware, sensorValue, ScanLocals, humidity, temperature,
                 published, uploads, httpCode, waits, snap>>

Publish(topic, payload, retained) ==
  [topic |-> topic, payload |-> payload, retained |-> retained]

\* the humidity publish left out: readDHT() goes from the first publish to the upload
readDHT_PublishTemp_Alone ==
  /\ pc = "publish_temp"
  /\ published' = Append(published,
                         Publish(dht_topic, StringOfFloat(temperature), TRUE))
  /\ pc' = "http_get"
  /\ UNCHANGED <<Net, Hardware, sensorValue, ScanLocals, humidity, temperature,
                 connAtPublish, uploads, httpCode, diag, waits, snap>>

\* mqttClient.publish(dht_topic, String(temperature).c_str(), true);
readDHT_PublishTemp ==
  /\ pc = "publish_temp"
  /\ published' = Append(published,
                         Publish(dht_topic, StringOfFloat(temperature), TRUE))
  /\ pc' = "publish_hum"
  /\ UNCHANGED <<Net, Hardware, sensorValue, ScanLocals, humidity, temperature,
                 connAtPublish, uploads, httpCode, diag, waits, snap>>

\* mqttClient.publish(dht_topic1, String(humidity).c_str(), true);
readDHT_PublishHum ==
  /\ pc = "publish_hum"
  /\ published' = Append(published,
                         Publish(dht_topic1, StringOfFloat(humidity), TRUE))
  /\ pc' = "http_get"
  /\ UNCHANGED <<Net, Hardware, sensorValue, ScanLocals, humidity, temperature,
                 connAtPublish, uploads, httpCode, diag, waits, snap>>

\* String link = ...; http.begin(link); int httpCode = http.GET();
readDHT_HttpGet ==
  /\ pc = "http_get"
  /\ uploads' = Append(uploads,
                       Link(temperature, humidity, sensorValue, sensorStatus))
  /\ \E code \in HttpCodes : httpCode' = code
  /\ pc' = "http_resp"
  /\ UNCHANGED <<Net, Hardware, sensorValue, ScanLocals, humidity, temperature,
                 connAtPublish, published, diag, waits, snap>>

\* a response other than OK sends the request again
readDHT_HttpEnd_Retry ==
  /\ pc = "http_resp"
  /\ diag' = IF httpCode # HTTP_CODE_OK
               THEN diag \cup {"HTTP GET request failed"}
               ELSE diag
  /\ pc' = IF httpCode # HTTP_CODE_OK /\ Len(uploads) < 2
            THEN "http_get" ELSE "tick_delay"
  /\ UNCHANGED <<Net, Hardware, sensorValue, ScanLocals, humidity, temperature,
                 connAtPublish, published, uploads, httpCode, waits, snap>>

\* if (httpCode != HTTP_CODE_OK) Serial.println("HTTP GET request failed");
\* http.getString(); http.end(); readDHT() returns
readDHT_HttpEnd ==
  /\ pc = "http_resp"
  /\ diag' = IF httpCode # HTTP_CODE_OK
               THEN diag \cup {"HTTP GET request failed"}
               ELSE diag
  /\ pc' = "tick_delay"
  /\ UNCHANGED <<Net, Hardware, sensorValue, ScanLocals, humidity, temperature,
                 connAtPublish, published, uploads, httpCode, waits, snap>>

\* loop() without its delay(1000)
loop_Delay_Missing ==
  /\ pc = "tick_delay"
  /\ waits' = waits
  /\ pc' = "loop_end"
  /\ UNCHANGED <<Net, Hardware, sensorValue, ScanLocals, DhtLocals, snap>>

\* ----------------------------------------------------------- end of loop()
\* delay(1000);
loop_Delay ==
  /\ pc = "tick_delay"
  /\ waits' = waits \cup {Wait("loop", LoopDelay)}
  /\ pc' = "loop_end"
  /\ UNCHANGED <<Net, Hardware, sensorValue, ScanLocals, DhtLocals, snap>>

\* the gas and slot inputs of the tick that is ending, and what it drove
TickRecord ==
  [gas |-> sensorValue, read1 |-> read1, read2 |-> read2,
   relay |-> relay, status |-> sensorStatus, led |-> led,
   available |-> availableSlots]

\* loop() returns: its locals go out of scope and the per-tick records restart
LoopReturns ==
  /\ pc = "loop_end"
  /\ pc' = "loop"
  /\ sensorValue' = 0
  /\ i' = 0
  /\ sensorStatus' = NoStatus
  /\ availableSlots' = NumSlots
  /\ read1' = NoRead
  /\ read2' = NoRead
  /\ humidity' = NaN
  /\ temperature' = NaN
  /\ connAtPublish' = "NONE"
  /\ published' = << >>
  /\ uploads' = << >>
  /\ httpCode' = 0
  /\ diag' = {}
  /\ waits' = {}
  /\ UNCHANGED <<Net, Hardware>>

\* loop() returns
loop_Return ==
  /\ LoopReturns
  /\ snap' = snap

\* loop() returns, and the tick that ends is the one remembered in snap
loop_ReturnRemembered ==
  /\ LoopReturns
  /\ snap = << >>
  /\ snap' = <<TickRecord>>

Next ==
  \/ setup_WifiBegin
  \/ setup_WifiWait
  \/ setup_Pins
  \/ setup_Relay
  \/ reconnect_Test
  \/ reconnect_Connect
  \/ LinkDrop
  \/ loop_CheckMqtt
  \/ loop_GasRead
  \/ loop_RelayWrite
  \/ detectIRStatus_Read1
  \/ detectIRStatus_Read2
  \/ loop_SlotDrive
  \/ displayLCD
  \/ readDHT_Sample
  \/ readDHT_PublishCheck
  \/ readDHT_PublishTemp
  \/ readDHT_PublishHum
  \/ readDHT_HttpGet
  \/ readDHT_HttpEnd
  \/ loop_Delay
  \/ loop_Return

Spec == Init /\ [][Next]_vars

\* the same program, with one tick of each run remembered
NextRemember ==
  \/ Next
  \/ loop_ReturnRemembered

SpecRemember == Init /\ [][NextRemember]_vars

\* ================================================================== claims
\* positions of loop() after the relay write of the tick
AfterRelayWrite ==
  pc \in {"ir_read1", "ir_read2", "slot_drive", "display", "dht_read",
          "publish_check", "publish_temp", "publish_hum", "http_get",
          "http_resp", "tick_delay", "loop_end"}

\* positions of loop() after the slot scan of the tick
ScanDone ==
  pc \in {"display", "dht_read", "publish_check", "publish_temp",
          "publish_hum", "http_get", "http_resp", "tick_delay", "loop_end"}

\* positions of loop() after readDHT() has returned
ReportDone == pc \in {"tick_delay", "loop_end"}

OccupiedSlots == {s \in Slots : sensorStatus[s] = "Occupied"}

\* C1: at the end of the slot scan of every tick availableSlots is 3 minus
\* the number of slots whose state is Occupied, and lies in 0..3.
C1_AvailableCount ==
  ScanDone =>
    /\ availableSlots = NumSlots - Cardinality(OccupiedSlots)
    /\ availableSlots >= 0
    /\ availableSlots <= NumSlots

C1_Witness ==
  /\ pc = "display"
  /\ sensorStatus = <<"Occupied", "Empty", "Occupied">>
  /\ availableSlots = 1

\* C2: after the relay write of a tick the relay is HIGH exactly when the gas
\* sample of the tick is strictly above threshold; a sample equal to
\* threshold leaves it LOW.
C2_RelayIffAbove ==
  AfterRelayWrite =>
    /\ relay \in {"LOW", "HIGH"}
    /\ (relay = "HIGH") <=> (sensorValue > threshold)
    /\ (sensorValue = threshold) => (relay = "LOW")

C2_Witness ==
  /\ pc = "ir_read1"
  /\ i = 0
  /\ sensorValue = threshold
  /\ relay = "LOW"

\* C3: detectIRStatus returns "Occupied" only when the first read and the
\* read after the settle wait are both LOW; a sensor that is LOW at only one
\* of the two reads gives "Empty".
C3_Debounce ==
  \A s \in Slots :
    sensorStatus[s] # "" =>
      /\ sensorStatus[s] \in {"Occupied", "Empty"}
      /\ (sensorStatus[s] = "Occupied")
           <=> (read1[s] = "LOW" /\ read2[s] = "LOW")
      /\ (read1[s] = "LOW" /\ read2[s] = "HIGH") => sensorStatus[s] = "Empty"
      /\ (read1[s] = "LOW") =>
           Wait("detectIRStatus", SettleDelay) \in waits

C3_Witness ==
  /\ pc = "slot_drive"
  /\ read1[i + 1] = "LOW"
  /\ read2[i + 1] = "HIGH"
  /\ sensorStatus[i + 1] = "Empty"

\* C4: a tick whose temperature or humidity is NaN issues no publish and no
\* upload; a tick whose sample is valid issues an upload.
C4_InvalidSampleSkipsReport ==
  ReportDone =>
    IF isnan(humidity) \/ isnan(temperature)
      THEN published = << >> /\ uploads = << >>
      ELSE Len(uploads) >= 1

C4_Witness ==
  /\ pc = "tick_delay"
  /\ isnan(humidity)
  /\ ~isnan(temperature)
  /\ published = << >>
  /\ uploads = << >>

ValidSample == ~isnan(humidity) /\ ~isnan(temperature)

MeetsThresholds == temperature >= TempThreshold /\ humidity >= HumThreshold

\* C5 as stated: in a tick with a valid sample a publish occurs exactly when
\* temperature >= 25.0 and humidity >= 60.0.
C5_PublishIffThresholds ==
  (ReportDone /\ ValidSample) => ((published # << >>) <=> MeetsThresholds)

\* C5 amended: in a tick with a valid sample a publish occurs exactly when
\* temperature >= 25.0, humidity >= 60.0 and mqttClient.connected() is true
\* when readDHT() tests it.
C5_PublishIffThresholdsAndConnected ==
  (ReportDone /\ ValidSample) =>
    /\ (published # << >>) <=> (MeetsThresholds /\ connAtPublish = "YES")
    /\ (connAtPublish # "NONE") <=> MeetsThresholds

C5_Witness ==
  /\ pc = "tick_delay"
  /\ temperature = TempThreshold
  /\ humidity = HumThreshold
  /\ connAtPublish = "YES"
  /\ Len(published) = 2

\* C6: when the sample meets the thresholds and the publisher is not
\* connected at the publish, nothing is published, readDHT() goes straight on
\* to the upload, and the upload is the one request a connected tick issues.
C6_DisconnectedSkipsPublishOnly ==
  /\ [](connAtPublish = "NO" =>
          /\ published = << >>
          /\ pc \in {"http_get", "http_resp", "tick_delay", "loop_end"}
          /\ (pc # "http_get") =>
               uploads = <<Link(temperature, humidity, sensorValue,
                                sensorStatus)>>)
  /\ [][(pc = "publish_check" /\ MeetsThresholds /\ ~connected) =>
          (pc' = "http_get" /\ waits' = waits /\ connected' = connected)]_vars
  /\ []((pc \in {"http_resp", "tick_delay", "loop_end"} /\ ValidSample) =>
          uploads = <<Link(temperature, humidity, sensorValue, sensorStatus)>>)

C6_Witness ==
  /\ pc = "tick_delay"
  /\ connAtPublish = "NO"
  /\ MeetsThresholds
  /\ published = << >>
  /\ Len(uploads) = 1

\* C7: whatever the response code, a tick issues at most one upload request,
\* and the relay and the three indicators are the same after the upload as
\* before it.
C7_UploadOnceNoActuation ==
  /\ [](Len(uploads) <= 1)
  /\ [][(pc \in {"http_get", "http_resp"}) =>
          (relay' = relay /\ led' = led)]_vars
  /\ [][(pc = "http_resp") => (pc' \in {"http_resp", "tick_delay"})]_vars

C7_Witness ==
  /\ pc = "tick_delay"
  /\ httpCode # HTTP_CODE_OK
  /\ Len(uploads) = 1
  /\ relay = "HIGH"

SameInputsAsRemembered ==
  /\ snap # << >>
  /\ sensorValue = snap[1].gas
  /\ read1 = snap[1].read1
  /\ read2 = snap[1].read2

\* C8: a tick that sees the gas sample and slot reads of an earlier tick
\* drives the same relay level, slot states, indicators and availableSlots,
\* whatever happened in the ticks before either of them.
C8_SameInputsSameOutputs ==
  (ScanDone /\ SameInputsAsRemembered) =>
    /\ relay = snap[1].relay
    /\ sensorStatus = snap[1].status
    /\ led = snap[1].led
    /\ availableSlots = snap[1].available

C8_Witness ==
  /\ pc = "tick_delay"
  /\ SameInputsAsRemembered
  /\ sensorValue = threshold
  /\ sensorStatus = <<"Empty", "Occupied", "Empty">>
  /\ ~ValidSample
  /\ Wait("reconnect", ReconnectDelay) \in waits

InReconnect == pc \in {"reconnect", "connect"}

\* C9: a tick that starts disconnected enters reconnect(); while reconnect()
\* runs nothing is read, written, displayed or reported; it is left only
\* once a connect attempt has succeeded, however many attempts have failed.
C9_ReconnectBlocks ==
  /\ [][(pc = "loop" /\ ~connected) => (pc' = "reconnect")]_vars
  /\ [][(InReconnect /\ ret = "loop") =>
          /\ UNCHANGED <<Hardware, sensorValue, ScanLocals, DhtLocals>>
          /\ pc' \in {"reconnect", "connect", "mqtt_loop"}
          /\ (pc' = "mqtt_loop") => connected]_vars
  /\ [][(InReconnect /\ ~connected /\ ~connected') => InReconnect']_vars

C9_Witness ==
  /\ pc = "connect"
  /\ ret = "loop"
  /\ ~connected
  /\ attempts = MaxAttempts
  /\ sensorValue = 0
  /\ uploads = << >>

\* C10: after the slot scan indicator s is LOW when slot s is Occupied and
\* HIGH when it is Empty, and is decided by the reads of slot s alone.
C10_IndicatorFollowsSlot ==
  ScanDone =>
    \A s \in Slots :
      /\ led[s] = IF sensorStatus[s] = "Occupied" THEN "LOW" ELSE "HIGH"
      /\ led[s] = IF read1[s] = "LOW" /\ read2[s] = "LOW" THEN "LOW" ELSE "HIGH"

C10_Witness ==
  /\ pc = "display"
  /\ sensorStatus = <<"Occupied", "Empty", "Empty">>
  /\ led = <<"LOW", "HIGH", "HIGH">>

\* positions of readDHT() and loop() after the GET request has been issued
UploadIssued == pc \in {"http_resp", "tick_delay", "loop_end"}

\* the decimal text of the gas samples and of the environment samples
GasText ==
  CASE sensorValue = 1000 -> "1000"
    [] sensorValue = 1001 -> "1001"
    [] sensorValue = 1200 -> "1200"
    [] OTHER -> "?"

TempText ==
  CASE temperature = 249 -> "24.90"
    [] temperature = 250 -> "25.00"
    [] OTHER -> "?"

HumText ==
  CASE humidity = 599 -> "59.90"
    [] humidity = 600 -> "60.00"
    [] OTHER -> "?"

\* C11: the upload request of a tick carries the gas sample that decided the
\* relay of that tick and the three slot states, in slot order, that drove
\* the indicators and the count; slots [Occupied, Empty, Occupied] with gas
\* 1200 give relay HIGH, availableSlots 1, indicators [LOW, HIGH, LOW] and a
\* request with gas=1200&ir1=Occupied&ir2=Empty&ir3=Occupied.
C11_UploadEncodesTick ==
  (UploadIssued /\ uploads # << >>) =>
    /\ uploads[1] =
         "http://YOUR_SERVER_IP/projectfinal/kirimdata.php?temp=" \o TempText
           \o "&hum=" \o HumText \o "&gas=" \o GasText
           \o "&ir1=" \o sensorStatus[1] \o "&ir2=" \o sensorStatus[2]
           \o "&ir3=" \o sensorStatus[3]
    /\ (relay = "HIGH") <=> (sensorValue > threshold)
    /\ \A s \in Slots :
         /\ sensorStatus[s] \in {"Occupied", "Empty"}
         /\ (led[s] = "LOW") <=> (sensorStatus[s] = "Occupied")
    /\ availableSlots = NumSlots - Cardinality(OccupiedSlots)
    /\ (sensorValue = 1200 /\ sensorStatus = <<"Occupied", "Empty", "Occupied">>
          /\ temperature = 250 /\ humidity = 600) =>
         /\ relay = "HIGH"
         /\ availableSlots = 1
         /\ led = <<"LOW", "HIGH", "LOW">>
         /\ uploads[1] =
              "http://YOUR_SERVER_IP/projectfinal/kirimdata.php?temp=25.00&hum=60.00&gas=1200&ir1=Occupied&ir2=Empty&ir3=Occupied"

C11_Witness ==
  /\ pc = "tick_delay"
  /\ sensorValue = 1200
  /\ sensorStatus = <<"Occupied", "Empty", "Occupied">>
  /\ relay = "HIGH"
  /\ availableSlots = 1
  /\ led = <<"LOW", "HIGH", "LOW">>
  /\ Len(uploads) = 1

\* the positions that may follow position p within loop()
StepsAfter(p) ==
  CASE p = "loop"          -> {"reconnect", "mqtt_loop"}
    [] p = "reconnect"     -> {"connect", "mqtt_loop"}
    [] p = "connect"       -> {"reconnect"}
    [] p = "mqtt_loop"     -> {"relay_write"}
    [] p = "relay_write"   -> {"ir_read1"}
    [] p = "ir_read1"      -> {"ir_read2", "slot_drive"}
    [] p = "ir_read2"      -> {"slot_drive"}
    [] p = "slot_drive"    -> {"ir_read1", "display"}
    [] p = "display"       -> {"dht_read"}
    [] p = "dht_read"      -> {"publish_check", "tick_delay"}
    [] p = "publish_check" -> {"publish_temp", "http_get"}
    [] p = "publish_temp"  -> {"publish_hum"}
    [] p = "publish_hum"   -> {"http_get"}
    [] p = "http_get"      -> {"http_resp"}
    [] p = "http_resp"     -> {"tick_delay"}
    [] p = "tick_delay"    -> {"loop_end"}
    [] p = "loop_end"      -> {"loop"}
    [] OTHER               -> {}

InSetup ==
  \/ pc \in {"setup", "wifi_wait", "setup_pins", "setup_relay"}
  \/ pc \in {"reconnect", "connect"} /\ ret = "setup"

BeforeGasRead == pc \in {"loop", "reconnect", "connect", "mqtt_loop"}

InScan == pc \in {"ir_read1", "ir_read2", "slot_drive"}

\* C12: every tick runs connectivity check, gas read and relay write, slots
\* 1, 2, 3 each read and then driven, display, report, inter-tick wait, in
\* that order, and the next tick starts only after the inter-tick wait.
C12_TickOrder ==
  /\ [][(~InSetup /\ pc' # pc) => (pc' \in StepsAfter(pc))]_vars
  /\ [][(pc = "slot_drive") =>
          (i' = i \/ (i' = i + 1 /\ pc' = IF i' < NumSlots THEN "ir_read1"
                                          ELSE "display"))]_vars
  /\ []((~InSetup /\ BeforeGasRead) =>
          (sensorValue = 0 /\ read1 = NoRead /\ sensorStatus = NoStatus))
  /\ []((pc = "relay_write") => (read1 = NoRead /\ sensorStatus = NoStatus))
  /\ [](InScan =>
          /\ i \in 0..(NumSlots - 1)
          /\ \A s \in Slots :
               /\ (s <= i) => (sensorStatus[s] # "" /\ read1[s] # "NONE")
               /\ (s > i + 1) => (sensorStatus[s] = "" /\ read1[s] = "NONE")
          /\ (pc = "ir_read1") => read1[i + 1] = "NONE"
          /\ (pc = "slot_drive") => sensorStatus[i + 1] # "")
  /\ []((~InSetup /\ (BeforeGasRead \/ pc = "relay_write" \/ InScan
            \/ pc = "display")) =>
          (published = << >> /\ uploads = << >> /\ diag = {}
             /\ humidity = NaN /\ temperature = NaN))
  /\ []((pc \in {"dht_read", "publish_check", "publish_temp", "publish_hum",
                 "http_get", "http_resp", "tick_delay", "loop_end"}) =>
          lcd = LcdRows(sensorStatus, availableSlots))
  /\ []((~InSetup /\ pc # "loop_end") => Wait("loop", LoopDelay) \notin waits)
  /\ []((pc = "loop_end") => Wait("loop", LoopDelay) \in waits)

C12_Witness ==
  /\ pc = "loop_end"
  /\ Wait("loop", LoopDelay) \in waits
  /\ Len(published) = 2
  /\ Len(uploads) = 1
  /\ sensorStatus = <<"Empty", "Occupied", "Empty">>

SampleTaken ==
  pc \in {"publish_check", "publish_temp", "publish_hum", "http_get",
          "http_resp", "tick_delay", "loop_end"}

SpecWaits ==
  {Wait("detectIRStatus", SettleDelay), Wait("loop", LoopDelay),
   Wait("reconnect", ReconnectDelay)}

\* C13 as stated: the waits of a tick are the 50-unit settle wait, the
\* inter-tick wait and the reconnect backoff only; a tick with an invalid
\* sample waits no more than that.
C13_OnlyThreeWaits ==
  ~InSetup => waits \subseteq SpecWaits

\* C13 amended: the waits of a tick are the 50-unit settle wait, the
\* inter-tick wait, the reconnect backoff and a 2000-unit wait that readDHT
\* makes exactly when the sample is invalid; the sample is read once per tick.
C13_WaitsOfTick ==
  /\ [](~InSetup =>
          /\ waits \subseteq (SpecWaits \cup {Wait("readDHT", DhtFailDelay)})
          /\ (Wait("readDHT", DhtFailDelay) \in waits)
               <=> (SampleTaken /\ ~ValidSample)
          /\ (Wait("detectIRStatus", SettleDelay) \in waits)
               <=> (\E s \in Slots : read1[s] = "LOW")
          /\ (Wait("reconnect", ReconnectDelay) \in waits) =>
               (pc # "loop"))
  /\ [][(pc = "dht_read") => (pc' # "dht_read" \/ UNCHANGED
                                <<humidity, temperature, waits>>)]_vars

C13_Witness ==
  /\ pc = "tick_delay"
  /\ ~ValidSample
  /\ Wait("readDHT", DhtFailDelay) \in waits
  /\ uploads = << >>

\* ---------------------------------------------------------------- fairness
\* the steps of the program itself: every delay() ends, every library call
\* returns, and loop() is called again after it returns
ProgramStep ==
  \/ setup_WifiBegin
  \/ setup_WifiWait
  \/ setup_Pins
  \/ setup_Relay
  \/ reconnect_Test
  \/ reconnect_Connect
  \/ loop_CheckMqtt
  \/ loop_GasRead
  \/ loop_RelayWrite
  \/ detectIRStatus_Read1
  \/ detectIRStatus_Read2
  \/ loop_SlotDrive
  \/ displayLCD
  \/ readDHT_Sample
  \/ readDHT_PublishCheck
  \/ readDHT_PublishTemp
  \/ readDHT_PublishHum
  \/ readDHT_HttpGet
  \/ readDHT_HttpEnd
  \/ loop_Delay
  \/ loop_Return

\* a connect attempt that the broker accepts
ConnectAccepted == reconnect_Connect /\ connected'

\* the test of reconnect() finding the session up, which ends reconnect()
ReconnectReturns == reconnect_Test /\ connected

\* the program under a broker that does not refuse for ever
SpecLive ==
  /\ Init
  /\ [][Next]_vars
  /\ WF_vars(ProgramStep)
  /\ SF_vars(ConnectAccepted)
  /\ SF_vars(ReconnectReturns)

\* C14: when blocked connect attempts eventually succeed and every request
\* returns, a tick that starts reaches its inter-tick wait and the next tick
\* starts, whatever the sensors, samples and response codes are.
C14_EveryTickCompletes ==
  /\ (pc = "loop") ~> (pc = "tick_delay")
  /\ (pc = "tick_delay") ~> (pc = "loop_end")
  /\ (pc = "loop_end") ~> (pc = "loop")

C14_Witness ==
  /\ pc = "loop_end"
  /\ Wait("reconnect", ReconnectDelay) \in waits
  /\ ~ValidSample

\* no displayLCD() has run yet: the display still shows what setup() left
FirstTickOrSetup == lcd[4] = ""

\* no gas evaluation has completed yet
BeforeFirstGasEvaluation ==
  /\ FirstTickOrSetup
  /\ InSetup \/ BeforeGasRead \/ pc = "relay_write"

\* C15 as stated: the relay is Off in every state before the first gas
\* evaluation.
C15_RelayOffBeforeFirstEvaluation ==
  BeforeFirstGasEvaluation => relay = "LOW"

\* C15 amended: when the first tick begins setup() has run in full (network
\* joined, a connect accepted, pins and display initialised, relay written
\* LOW), so the relay is LOW from the end of setup() to the first gas
\* evaluation; before setup() writes it the relay pin is not driven.
C15_SetupCompleteAtFirstTick ==
  /\ []((BeforeFirstGasEvaluation /\ ~InSetup) =>
          /\ relay = "LOW"
          /\ wifi
          /\ \A s \in Slots : led[s] = "LOW"
          /\ lcd = << "Wifi Connected...", "", "", "" >>)
  /\ [][(InSetup /\ ~InSetup') => (pc = "setup_relay" /\ relay' = "LOW")]_vars
  /\ [][(pc = "reconnect" /\ ret = "setup" /\ pc' # pc) =>
          (pc' = "connect" \/ (connected /\ pc' = "setup_pins"))]_vars
  /\ []((InSetup /\ pc # "setup_relay") => (relay = "FLOAT"))

C15_Witness ==
  /\ pc = "relay_write"
  /\ FirstTickOrSetup
  /\ relay = "LOW"
  /\ sensorValue > threshold

\* C16: within the loop the relay is written by the gas evaluation step and
\* by no other; each tick passes that step once; through reconnect(), the
\* slot scan, the display and the report the relay keeps the level of the
\* last evaluation.
C16_RelayWrittenOncePerTick ==
  /\ [][(~InSetup /\ pc # "relay_write") => (relay' = relay)]_vars
  /\ [][(pc = "relay_write" /\ pc' # pc) =>
          (relay' = (IF sensorValue > threshold THEN "HIGH" ELSE "LOW")
             /\ pc' = "ir_read1")]_vars
  /\ [][(pc' = "relay_write" /\ pc # pc') =>
          (pc = "mqtt_loop" /\ read1 = NoRead /\ waits \subseteq
             {Wait("reconnect", ReconnectDelay)})]_vars
  /\ []((AfterRelayWrite) =>
          (relay = (IF sensorValue > threshold THEN "HIGH" ELSE "LOW")))

C16_Witness ==
  /\ pc = "connect"
  /\ ret = "loop"
  /\ relay = "HIGH"
  /\ Wait("reconnect", ReconnectDelay) \in waits

Topics(calls) == [k \in 1..Len(calls) |-> calls[k].topic]

\* C17: a tick issues either no publish call or exactly two, the temperature
\* topic first and the humidity topic second, both retained and both before
\* the upload request; no tick ends with one of the two alone.
C17_PublishBothOrNeither ==
  /\ [](\A k \in 1..Len(published) : published[k].retained = TRUE)
  /\ []((pc = "publish_temp") => (published = << >> /\ uploads = << >>))
  /\ []((pc = "publish_hum") =>
          (Topics(published) = <<"DHT11_topic_manros">> /\ uploads = << >>))
  /\ []((pc \in {"http_get", "http_resp", "tick_delay", "loop_end"}) =>
          Topics(published) \in
            {<< >>, <<"DHT11_topic_manros", "DHT11_topic1_manros">>})
  /\ []((pc \notin {"publish_hum", "http_get", "http_resp", "tick_delay",
                    "loop_end"}) => published = << >>)
  /\ []((Len(published) = 2) =>
          (published[1].payload = TempText /\ published[2].payload = HumText))
  /\ [][(uploads' # uploads /\ uploads' # << >>) =>
          (published' = published /\ Len(published) \in {0, 2})]_vars
  /\ [][(pc = "publish_temp" /\ pc' # pc) => (pc' = "publish_hum")]_vars

C17_Witness ==
  /\ pc = "tick_delay"
  /\ Topics(published) = <<"DHT11_topic_manros", "DHT11_topic1_manros">>
  /\ ~connected
  /\ Len(uploads) = 1
====
